---- MODULE Spec2Model ----
(***************************************************************************)
(* Model of main.py: the PDF -> JSON extractor with its two upload         *)
(* endpoints, the regex field recognizer and the recursive merge.          *)
(*                                                                         *)
(* Python values are tagged records: None, str (a sequence of one-         *)
(* character strings), list (a sequence of strs) and dict (a function      *)
(* from key to value).                                                     *)
(***************************************************************************)
EXTENDS Integers, Sequences, FiniteSets, TLC

VARIABLES
    json1, json2, merged, mpc,          \* a call of merge_jsons
    pdf, outcome, xpc,                  \* a call of extract_agreement_data
    endpoint, files, pc, idx, tmp, fs,  \* one request to an upload endpoint
    results, pdf_jsons, exc, response, log

vars == <<json1, json2, merged, mpc, pdf, outcome, xpc,
          endpoint, files, pc, idx, tmp, fs, results, pdf_jsons, exc, response, log>>

mergeVars == <<json1, json2, merged, mpc>>
extractVars == <<pdf, outcome, xpc>>
requestVars ==
    <<endpoint, files, pc, idx, tmp, fs, results, pdf_jsons, exc, response, log>>

-----------------------------------------------------------------------------
(* Bounds *)

MaxDepth == 2      \* nesting depth of the mappings given to merge_jsons
MaxPages == 2      \* pages of a PDF given to extract_agreement_data
MaxFiles == 3      \* uploads in one request

-----------------------------------------------------------------------------
(* Python values *)

None == [t |-> "none"]
Str(s) == [t |-> "str", v |-> s]
List(l) == [t |-> "list", v |-> l]
Dict(f) == [t |-> "dict", v |-> f]

\* bool(x) of a Python value
Truthy(x) ==
    CASE x.t = "none" -> FALSE
      [] x.t = "str" -> Len(x.v) > 0
      [] x.t = "list" -> Len(x.v) > 0
      [] x.t = "dict" -> DOMAIN x.v # {}

OrRightFirst(a, b) == IF Truthy(b) THEN b ELSE a
OrNoneWhenFalsy(a, b) == IF Truthy(a) THEN a ELSE None

\* the Python expression  a or b
Or(a, b) == IF Truthy(a) THEN a ELSE b

\* d.get(key)
Get(d, key) == IF key \in DOMAIN d THEN d[key] ELSE None

isinstance_dict(x) == x.t = "dict"

-----------------------------------------------------------------------------
(* merge_jsons *)

merge_jsons_over_right_keys(j1, j2) ==
    [key \in DOMAIN j2 |-> Or(Get(j1, key), j2[key])]

RECURSIVE merge_jsons(_, _)
merge_jsons(j1, j2) ==
    [key \in DOMAIN j1 |->
        IF isinstance_dict(j1[key]) /\ isinstance_dict(Get(j2, key))
        THEN Dict(merge_jsons(j1[key].v, j2[key].v))
        ELSE Or(j1[key], Get(j2, key))]

-----------------------------------------------------------------------------
(* Characters and character classes of the re module *)

UpperSeq == <<"A","B","C","D","E","F","G","H","I","J","K","L","M","N","O","P","Q","R","S","T","U","V","W","X","Y","Z">>
LowerSeq == <<"a","b","c","d","e","f","g","h","i","j","k","l","m","n","o","p","q","r","s","t","u","v","w","x","y","z">>
Upper == {UpperSeq[i] : i \in 1..26}
Lower == {LowerSeq[i] : i \in 1..26}
Digit == {"0","1","2","3","4","5","6","7","8","9"}
Space == {" ", "\t", "\n", "\r", "\f"}                  \* \s
Word == Upper \cup Lower \cup Digit \cup {"_"}          \* \w

LowerMap == [c \in Upper |-> LowerSeq[CHOOSE i \in 1..26 : UpperSeq[i] = c]]
UpperMap == [c \in Lower |-> UpperSeq[CHOOSE i \in 1..26 : LowerSeq[i] = c]]

\* str.lower() of one character
ToLower(c) == IF c \in Upper THEN LowerMap[c] ELSE c
\* the other case of a character (re.IGNORECASE compares both cases)
SwapCase(c) == IF c \in Upper THEN LowerMap[c] ELSE IF c \in Lower THEN UpperMap[c] ELSE c

Cls(set) == [neg |-> FALSE, set |-> set]
NotCls(set) == [neg |-> TRUE, set |-> set]

\* does character c belong to class cls; ic is the re.I flag
InClass(c, cls, ic) ==
    (c \in cls.set \/ (ic /\ SwapCase(c) \in cls.set)) # cls.neg

-----------------------------------------------------------------------------
(* Regular expressions: a pattern is a sequence of items, matched by       *)
(* backtracking in the priority order of re (leftmost start, greedy        *)
(* repetitions longest first, lazy ones shortest first, alternatives left  *)
(* to right).                                                              *)

Lit(s) == [t |-> "lit", s |-> s]
Rep(c, min, max, greedy) == [t |-> "rep", c |-> c, min |-> min, max |-> max, greedy |-> greedy]
Star(c) == Rep(c, 0, -1, TRUE)            \* c*
Plus(c) == Rep(c, 1, -1, TRUE)            \* c+
LazyPlus(c) == Rep(c, 1, -1, FALSE)       \* c+?
Opt(c) == Rep(c, 0, 1, TRUE)              \* c?
Open(g) == [t |-> "open", g |-> g]        \* (  of group g
Close(g) == [t |-> "close", g |-> g]      \* )  of group g
Alt(alts) == [t |-> "alt", alts |-> alts] \* a|b|...
Eos == [t |-> "eos"]                      \* $

NoMatch == [ok |-> FALSE]
NoGroups == [g \in 1..4 |-> <<0, 0>>]

LitAt(s, pos, txt, ic) ==
    /\ pos + Len(s) - 1 <= Len(txt)
    /\ \A i \in 1..Len(s) :
          \/ txt[pos + i - 1] = s[i]
          \/ ic /\ SwapCase(txt[pos + i - 1]) = s[i]

\* number of characters of class c from pos on, at most max (-1: no limit)
RECURSIVE RunLen(_, _, _, _, _)
RunLen(c, pos, txt, ic, max) ==
    IF max = 0 \/ pos > Len(txt) \/ ~InClass(txt[pos], c, ic) THEN 0
    ELSE 1 + RunLen(c, pos + 1, txt, ic, IF max < 0 THEN max ELSE max - 1)

\* $ without re.M: the end of the text, or just before a final newline
AtEnd(pos, txt) ==
    \/ pos = Len(txt) + 1
    \/ pos = Len(txt) /\ txt[pos] = "\n"

RECURSIVE Match(_, _, _, _, _)
RECURSIVE TryReps(_, _, _, _, _, _, _, _)
RECURSIVE TryAlts(_, _, _, _, _, _, _)

\* match the items from position pos; cap holds the groups bound so far
Match(items, pos, cap, txt, ic) ==
    IF Len(items) = 0 THEN [ok |-> TRUE, cap |-> cap, start |-> 0, end |-> pos]
    ELSE LET it == Head(items)
             rest == Tail(items)
         IN CASE it.t = "lit" ->
                   IF LitAt(it.s, pos, txt, ic)
                   THEN Match(rest, pos + Len(it.s), cap, txt, ic)
                   ELSE NoMatch
              [] it.t = "rep" ->
                   LET n == RunLen(it.c, pos, txt, ic, it.max)
                   IN IF n < it.min THEN NoMatch
                      ELSE TryReps(IF it.greedy THEN n ELSE it.min, it, n, rest, pos, cap, txt, ic)
              [] it.t = "open" ->
                   Match(rest, pos, [cap EXCEPT ![it.g] = <<pos, pos>>], txt, ic)
              [] it.t = "close" ->
                   Match(rest, pos, [cap EXCEPT ![it.g] = <<@[1], pos>>], txt, ic)
              [] it.t = "alt" ->
                   TryAlts(1, it.alts, rest, pos, cap, txt, ic)
              [] it.t = "eos" ->
                   IF AtEnd(pos, txt) THEN Match(rest, pos, cap, txt, ic) ELSE NoMatch

\* a repetition taking k characters, then the next count in priority order
TryReps(k, it, n, rest, pos, cap, txt, ic) ==
    IF k < it.min \/ k > n THEN NoMatch
    ELSE LET r == Match(rest, pos + k, cap, txt, ic)
         IN IF r.ok THEN r
            ELSE TryReps(IF it.greedy THEN k - 1 ELSE k + 1, it, n, rest, pos, cap, txt, ic)

\* the alternatives from the j-th on, each followed by the rest
TryAlts(j, alts, rest, pos, cap, txt, ic) ==
    IF j > Len(alts) THEN NoMatch
    ELSE LET r == Match(alts[j] \o rest, pos, cap, txt, ic)
         IN IF r.ok THEN r ELSE TryAlts(j + 1, alts, rest, pos, cap, txt, ic)

\* re.search(pattern, text, flags): the first match from the leftmost start
RECURSIVE SearchFrom(_, _, _, _)
SearchFrom(start, pattern, txt, ic) ==
    IF start > Len(txt) + 1 THEN NoMatch
    ELSE LET r == Match(pattern, start, NoGroups, txt, ic)
         IN IF r.ok THEN [r EXCEPT !.start = start]
            ELSE SearchFrom(start + 1, pattern, txt, ic)

re_search(pattern, txt, ic) == SearchFrom(1, pattern, txt, ic)

\* m.group(g)
Group(m, g, txt) == SubSeq(txt, m.cap[g][1], m.cap[g][2] - 1)

-----------------------------------------------------------------------------
(* str methods and re.sub *)

RECURSIVE LStrip(_)
LStrip(s) == IF Len(s) > 0 /\ Head(s) \in Space THEN LStrip(Tail(s)) ELSE s

RECURSIVE RStrip(_)
RStrip(s) ==
    IF Len(s) > 0 /\ s[Len(s)] \in Space THEN RStrip(SubSeq(s, 1, Len(s) - 1)) ELSE s

\* s.strip()
Strip(s) == RStrip(LStrip(s))

\* re.sub(r"\r", "\n", text)
SubCR(s) == [i \in 1..Len(s) |-> IF s[i] = "\r" THEN "\n" ELSE s[i]]

\* re.sub(r"[ \t]+", " ", txt)
RECURSIVE SubBlanks(_)
SubBlanks(s) ==
    IF Len(s) = 0 THEN <<>>
    ELSE IF Head(s) \in {" ", "\t"}
         THEN <<" ">> \o SubBlanks(SubSeq(s, 1 + RunLen(Cls({" ", "\t"}), 1, s, FALSE, -1), Len(s)))
         ELSE <<Head(s)>> \o SubBlanks(Tail(s))

\* s.split(","): the pieces between the commas
RECURSIVE SplitComma(_, _)
SplitComma(s, cur) ==
    IF Len(s) = 0 THEN <<cur>>
    ELSE IF Head(s) = "," THEN <<cur>> \o SplitComma(Tail(s), <<>>)
         ELSE SplitComma(Tail(s), Append(cur, Head(s)))

\* "\n".join(parts)
RECURSIVE JoinNL(_)
JoinNL(parts) ==
    IF Len(parts) = 0 THEN <<>>
    ELSE IF Len(parts) = 1 THEN parts[1]
         ELSE parts[1] \o <<"\n">> \o JoinNL(Tail(parts))

-----------------------------------------------------------------------------
(* The patterns of extract_agreement_data *)

LabelSep == Star(Cls({":"} \cup Space))        \* [:\s]*
RestOfLine == Plus(NotCls({"\n"}))             \* [^\n]+
AnyChar == NotCls({})                            \* [\s\S]
DigitsCommas == Plus(Cls(Digit \cup {","}))    \* [0-9,]+  [\d,]+  [\d,\,]+
Spaces == Plus(Cls(Space))                     \* \s+
OptSpaces == Star(Cls(Space))                  \* \s*

\* label[:\s]*([^\n]+)
LabelLine(label) == <<Lit(label), LabelSep, Open(1), RestOfLine, Close(1)>>

\* Contract No[:\s]*([A-Z0-9\-\./]+)
pat_contract_no ==
    <<Lit(<<"C","o","n","t","r","a","c","t"," ","N","o">>), LabelSep,
      Open(1), Plus(Cls(Upper \cup Digit \cup {"-", ".", "/"})), Close(1)>>

\* Date[:\s]*([0-9]{4}-[0-9]{2}-[0-9]{2}|[0-9]{1,2}/[0-9]{1,2}/[0-9]{2,4})
pat_date ==
    <<Lit(<<"D","a","t","e">>), LabelSep, Open(1),
      Alt(<< <<Rep(Cls(Digit), 4, 4, TRUE), Lit(<<"-">>), Rep(Cls(Digit), 2, 2, TRUE),
               Lit(<<"-">>), Rep(Cls(Digit), 2, 2, TRUE)>>,
             <<Rep(Cls(Digit), 1, 2, TRUE), Lit(<<"/">>), Rep(Cls(Digit), 1, 2, TRUE),
               Lit(<<"/">>), Rep(Cls(Digit), 2, 4, TRUE)>> >>),
      Close(1)>>

\* SELLER\s+([\s\S]+?)\s+CONSIGNEE
pat_seller ==
    <<Lit(<<"S","E","L","L","E","R">>), Spaces, Open(1), LazyPlus(AnyChar), Close(1), Spaces,
      Lit(<<"C","O","N","S","I","G","N","E","E">>)>>

\* CONSIGNEE\s+([\s\S]+?)\s+NOTIFY PARTY
pat_consignee ==
    <<Lit(<<"C","O","N","S","I","G","N","E","E">>), Spaces, Open(1), LazyPlus(AnyChar), Close(1),
      Spaces, Lit(<<"N","O","T","I","F","Y"," ","P","A","R","T","Y">>)>>

\* NOTIFY PARTY\s+([\s\S]+?)\s+Product
pat_notify_party ==
    <<Lit(<<"N","O","T","I","F","Y"," ","P","A","R","T","Y">>), Spaces, Open(1), LazyPlus(AnyChar),
      Close(1), Spaces, Lit(<<"P","r","o","d","u","c","t">>)>>

\* NOTIFY PARTY\s+([\s\S]+)$
pat_notify_party_to_end ==
    <<Lit(<<"N","O","T","I","F","Y"," ","P","A","R","T","Y">>), Spaces, Open(1), Plus(AnyChar),
      Close(1), Eos>>

\* ([A-Za-z &-]+?)\s+([0-9,]+\s*bales|[0-9,]+)\s+
\* ([\d,]+\s*USD\/bale|[\d,]+\s*USD\/\w+|[\d,]+\s*USD)\s+([\d,\,]+\s*USD)
pat_product ==
    <<Open(1), LazyPlus(Cls(Upper \cup Lower \cup {" ", "&", "-"})), Close(1), Spaces,
      Open(2),
      Alt(<< <<DigitsCommas, OptSpaces, Lit(<<"b","a","l","e","s">>)>>,
             <<DigitsCommas>> >>),
      Close(2), Spaces,
      Open(3),
      Alt(<< <<DigitsCommas, OptSpaces, Lit(<<"U","S","D","/","b","a","l","e">>)>>,
             <<DigitsCommas, OptSpaces, Lit(<<"U","S","D","/">>), Plus(Cls(Word))>>,
             <<DigitsCommas, OptSpaces, Lit(<<"U","S","D">>)>> >>),
      Close(3), Spaces,
      Open(4), DigitsCommas, OptSpaces, Lit(<<"U","S","D">>), Close(4)>>

pat_packing == LabelLine(<<"P","a","c","k","i","n","g">>)
pat_loading_port == LabelLine(<<"L","o","a","d","i","n","g"," ","P","o","r","t">>)
pat_destination_port ==
    LabelLine(<<"D","e","s","t","i","n","a","t","i","o","n"," ","P","o","r","t">>)
pat_shipment == LabelLine(<<"S","h","i","p","m","e","n","t">>)

\* Seller(?:'|')?s Bank[:\s]*([^\n]+)   ("rsquo" stands for the curly apostrophe)
pat_seller_bank ==
    <<Lit(<<"S","e","l","l","e","r">>), Opt(Cls({"rsquo", "'"})),
      Lit(<<"s"," ","B","a","n","k">>), LabelSep, Open(1), RestOfLine, Close(1)>>

\* Account No\.?:\s*([0-9\-\s]+)
pat_account_no ==
    <<Lit(<<"A","c","c","o","u","n","t"," ","N","o">>), Opt(Cls({"."})), Lit(<<":">>),
      OptSpaces, Open(1), Plus(Cls(Digit \cup {"-"} \cup Space)), Close(1)>>

pat_documents == LabelLine(<<"D","o","c","u","m","e","n","t","s">>)
pat_payment_terms == LabelLine(<<"P","a","y","m","e","n","t"," ","T","e","r","m","s">>)
pat_website == LabelLine(<<"W","e","b","s","i","t","e">>)
pat_email == LabelLine(<<"E","m","a","i","l">>)

\* ([A-Z][A-Z0-9 &]*PVT LTD)
pat_company_name ==
    <<Open(1), Rep(Cls(Upper), 1, 1, TRUE), Star(Cls(Upper \cup Digit \cup {" ", "&"})),
      Lit(<<"P","V","T"," ","L","T","D">>), Close(1)>>

pat_address == LabelLine(<<"A","d","d","r","e","s","s">>)
pat_gst == LabelLine(<<"G","S","T">>)

\* GSTIN([0-9A-Z]+)
pat_gstin == <<Lit(<<"G","S","T","I","N">>), Open(1), Plus(Cls(Digit \cup Upper)), Close(1)>>

-----------------------------------------------------------------------------
(* safe_search, extract_text_from_pdf, extract_agreement_data *)

Return(v) == [t |-> "return", v |-> v]
Raise(e) == [t |-> "raise", exc |-> e]

safe_search(pattern, text, ic) ==
    LET m == re_search(pattern, text, ic)
    IN IF m.ok THEN Str(Strip(Group(m, 1, text))) ELSE None

\* A PDF file: whether PdfReader can open it, and what extract_text() gives
\* for each of its pages (None, or a str).
page_text(p) == Or(p, Str(<<>>)).v

extract_text_from_pdf(file) ==
    IF ~file.openable THEN Raise("RuntimeError")
    ELSE Return(JoinNL([i \in 1..Len(file.pages) |-> page_text(file.pages[i])]))

product_group_without_amount(txt) ==
    LET prod_match == re_search(pat_product, txt, TRUE)
    IN IF prod_match.ok
       THEN [name |-> Str(Strip(Group(prod_match, 1, txt))),
             quantity |-> Str(Strip(Group(prod_match, 2, txt))),
             price_per_unit |-> Str(Strip(Group(prod_match, 3, txt))),
             amount_total |-> None]
       ELSE [name |-> None, quantity |-> None, price_per_unit |-> None, amount_total |-> None]

\* product_name, product_quantity, product_price, product_amount
product_group(txt) ==
    LET prod_match == re_search(pat_product, txt, TRUE)
    IN IF prod_match.ok
       THEN [name |-> Str(Strip(Group(prod_match, 1, txt))),
             quantity |-> Str(Strip(Group(prod_match, 2, txt))),
             price_per_unit |-> Str(Strip(Group(prod_match, 3, txt))),
             amount_total |-> Str(Strip(Group(prod_match, 4, txt)))]
       ELSE [name |-> None, quantity |-> None, price_per_unit |-> None, amount_total |-> None]

\* [d.strip() for d in documents_raw.split(",")] if documents_raw else []
documents_list(documents_raw) ==
    IF Truthy(documents_raw)
    THEN LET parts == SplitComma(documents_raw.v, <<>>)
         IN List([i \in 1..Len(parts) |-> Strip(parts[i])])
    ELSE List(<<>>)

\* the text after the two re.sub calls
normalize(text) == SubBlanks(SubCR(text))

detailed_json(txt) ==
    LET product == product_group(txt)
    IN [header |-> Dict([
            contract_no |-> safe_search(pat_contract_no, txt, TRUE),
            date |-> safe_search(pat_date, txt, TRUE)]),
        company |-> Dict([
            website |-> safe_search(pat_website, txt, TRUE),
            email |-> safe_search(pat_email, txt, TRUE),
            company_name |-> safe_search(pat_company_name, txt, FALSE),
            address |-> safe_search(pat_address, txt, TRUE),
            gst |-> Or(safe_search(pat_gst, txt, TRUE), safe_search(pat_gstin, txt, TRUE))]),
        parties |-> Dict([
            seller |-> safe_search(pat_seller, txt, TRUE),
            consignee |-> safe_search(pat_consignee, txt, TRUE),
            notify_party |-> Or(safe_search(pat_notify_party, txt, TRUE),
                                safe_search(pat_notify_party_to_end, txt, TRUE))]),
        product |-> Dict([
            name |-> product.name,
            quantity |-> product.quantity,
            price_per_unit |-> product.price_per_unit,
            amount_total |-> product.amount_total,
            packing |-> safe_search(pat_packing, txt, TRUE)]),
        shipment |-> Dict([
            loading_port |-> safe_search(pat_loading_port, txt, TRUE),
            destination_port |-> safe_search(pat_destination_port, txt, TRUE),
            shipment_date |-> safe_search(pat_shipment, txt, TRUE)]),
        bank_details |-> Dict([
            seller_bank |-> safe_search(pat_seller_bank, txt, TRUE),
            account_no |-> safe_search(pat_account_no, txt, TRUE)]),
        documents |-> documents_list(safe_search(pat_documents, txt, TRUE)),
        payment_terms |-> safe_search(pat_payment_terms, txt, TRUE)]

extract_agreement_data(file) ==
    LET text == extract_text_from_pdf(file)
    IN IF text.t = "raise" THEN text
       ELSE IF Len(text.v) = 0 THEN Raise("ValueError")
       ELSE Return(detailed_json(normalize(text.v)))

-----------------------------------------------------------------------------
(* Inputs *)

\* leaves of a JSON mapping: null, "", "X", "Y", [], ["d"]
Leaves ==
    {None, Str(<<>>), Str(<<"X">>), Str(<<"Y">>), List(<<>>), List(<< <<"d">> >>)}

\* the dicts with keys among keys and values among vals
MappingsOver(keys, vals) == UNION {[S -> vals] : S \in SUBSET keys}

\* the values nested at most d deep below a key
RECURSIVE ValuesAt(_)
ValuesAt(d) ==
    IF d = 0 THEN Leaves
    ELSE Leaves \cup {Dict(f) : f \in MappingsOver({"c"}, ValuesAt(d - 1))}

MergeInputs == MappingsOver({"a", "b"}, ValuesAt(MaxDepth - 1))

\* what extract_text() gives for a page
PageTexts ==
    { None,
      Str(<<>>),
      Str(<<"P","a","c","k","i","n","g",":"," ">>),
      Str(<<"G","S","T",":"," ","\n","D","o","c","u","m","e","n","t","s",":"," ","a",",",",","b">>),
      Str(<<"C","o","t","t","o","n"," ","1","2"," ","b","a","l","e","s">>),
      Str(<<"C","o","t","t","o","n"," "," ","1","2"," ","b","a","l","e","s","\t","5"," ","U","S","D","/","b","a","l","e"," ","6","0"," ","U","S","D">>),
      Str(<<"5"," ","U","S","D"," ","6","0"," ","U","S","D">>),
      Str(<<"1","2"," ","5"," ","U","S","D"," ","6","0"," ","U","S","D">>),
      Str(<<"S","E","L","L","E","R"," ","\r"," ","C","O","N","S","I","G","N","E","E"," ","Y"," ","N","O","T","I","F","Y"," ","P","A","R","T","Y"," ","Z">>) }

Unreadable == [openable |-> FALSE, pages |-> <<>>]

PagesUpTo(n) == UNION {[1..k -> PageTexts] : k \in 0..n}

Pdfs == {Unreadable} \cup {[openable |-> TRUE, pages |-> ps] : ps \in PagesUpTo(MaxPages)}

-----------------------------------------------------------------------------
(* A call of merge_jsons on two mappings *)

IdleMerge == json1 = <<>> /\ json2 = <<>> /\ merged = <<>> /\ mpc = "idle"
IdleExtract == pdf = Unreadable /\ outcome = None /\ xpc = "idle"
IdleRequest ==
    /\ endpoint = "" /\ files = <<>> /\ pc = "idle" /\ idx = 0 /\ tmp = 0 /\ fs = {}
    /\ results = <<>> /\ pdf_jsons = <<>> /\ exc = "" /\ response = [status |-> 0]
    /\ log = <<>>

InitMerge ==
    /\ json1 \in MergeInputs
    /\ json2 \in MergeInputs
    /\ merged = <<>>
    /\ mpc = "call"
    /\ IdleExtract /\ IdleRequest

MergeJsons ==
    /\ mpc = "call"
    /\ merged' = merge_jsons(json1, json2)
    /\ mpc' = "done"
    /\ UNCHANGED <<json1, json2, extractVars, requestVars>>

NextMerge == MergeJsons

SpecMerge == InitMerge /\ [][NextMerge]_vars

-----------------------------------------------------------------------------
(* A call of extract_agreement_data on a PDF file *)

InitExtract ==
    /\ pdf \in Pdfs
    /\ outcome = None
    /\ xpc = "call"
    /\ IdleMerge /\ IdleRequest

ExtractAgreementData ==
    /\ xpc = "call"
    /\ outcome' = extract_agreement_data(pdf)
    /\ xpc' = "done"
    /\ UNCHANGED <<pdf, mergeVars, requestVars>>

NextExtract == ExtractAgreementData

SpecExtract == InitExtract /\ [][NextExtract]_vars

-----------------------------------------------------------------------------
(* One request to an upload endpoint.                                      *)
(*   files      the uploads: a filename and the PDF file its bytes make    *)
(*   pc         the position in the handler                                *)
(*   idx        the upload the for loop is at (from 1)                     *)
(*   tmp, fs    the name of the current temporary file; the temporary      *)
(*              files that exist                                           *)
(*   exc        the exception propagating out of the try block             *)
(*   response   what the client gets                                       *)
(*   log        what was done for which upload, in order                   *)

TwoPdfs == "/upload-two-pdfs/"
Match2 == "/upload-two-pdfs/match/"

Filenames ==
    { <<"a",".","p","d","f">>, <<"B",".","P","D","F">>, <<"c",".","t","x","t">> }

\* the PDF files uploaded: one PdfReader cannot open, one of a page without
\* text, one of two pages without text, two with text
UploadPdfs ==
    { Unreadable,
      [openable |-> TRUE, pages |-> <<Str(<<>>)>>],
      [openable |-> TRUE, pages |-> <<None, None>>],
      [openable |-> TRUE, pages |-> <<Str(<<"P","a","c","k","i","n","g",":"," ">>)>>],
      [openable |-> TRUE,
       pages |-> <<Str(<<"P","a","c","k","i","n","g",":"," ","b","a","g","s">>), None>>] }

Uploads == [filename : Filenames, pdf : UploadPdfs]

\* s.lower()
StrLower(s) == [i \in 1..Len(s) |-> ToLower(s[i])]

\* s.endswith(suffix)
EndsWith(s, suffix) ==
    /\ Len(s) >= Len(suffix)
    /\ SubSeq(s, Len(s) - Len(suffix) + 1, Len(s)) = suffix

is_pdf_name(filename) == EndsWith(StrLower(filename), <<".","p","d","f">>)

\* raise HTTPException(status_code=400, ...)
HTTPException400 == [status |-> 400, kind |-> "detail"]
\* an exception that leaves the handler: the server answers 500
ServerError == [status |-> 500, kind |-> "error"]
JSONResponse(kind, content) == [status |-> 200, kind |-> kind, content |-> content]

Event(ev, i) == [ev |-> ev, i |-> i]

\* results[filename] = data
SetItem(d, key, value) ==
    [k \in DOMAIN d \cup {key} |-> IF k = key THEN value ELSE d[k]]

Init ==
    /\ endpoint \in {TwoPdfs, Match2}
    /\ files \in UNION {[1..n -> Uploads] : n \in 1..MaxFiles}
    /\ pc = "start"
    /\ idx = 0 /\ tmp = 0 /\ fs = {}
    /\ results = <<>> /\ pdf_jsons = <<>>
    /\ exc = ""
    /\ response = [status |-> 0]
    /\ log = <<>>
    /\ IdleMerge /\ IdleExtract

(* upload_two_pdfs *)

two_check_count ==
    /\ endpoint = TwoPdfs /\ pc = "start"
    /\ IF Len(files) # 2
       THEN /\ response' = HTTPException400
            /\ pc' = "done"
            /\ UNCHANGED idx
       ELSE /\ idx' = 1
            /\ pc' = "check"
            /\ UNCHANGED response
    /\ UNCHANGED <<mergeVars, extractVars>>
    /\ UNCHANGED <<endpoint, files, tmp, fs, results, pdf_jsons, exc, log>>

two_check_filename ==
    /\ endpoint = TwoPdfs /\ pc = "check"
    /\ IF ~is_pdf_name(files[idx].filename)
       THEN /\ response' = HTTPException400
            /\ pc' = "done"
       ELSE /\ pc' = "create"
            /\ UNCHANGED response
    /\ UNCHANGED <<mergeVars, extractVars>>
    /\ UNCHANGED <<endpoint, files, idx, tmp, fs, results, pdf_jsons, exc, log>>

two_create_tmp ==
    /\ endpoint = TwoPdfs /\ pc = "create"
    /\ tmp' = idx
    /\ fs' = fs \cup {idx}
    /\ pc' = "try"
    /\ UNCHANGED <<mergeVars, extractVars>>
    /\ UNCHANGED <<endpoint, files, idx, results, pdf_jsons, exc, response, log>>

two_read_write ==
    /\ endpoint = TwoPdfs /\ pc = "try"
    /\ \E io \in {"ok", "read fails", "write fails"} :
          IF io = "ok"
          THEN /\ log' = Append(log, Event("materialize", idx))
               /\ pc' = "extract"
               /\ UNCHANGED exc
          ELSE /\ exc' = "OSError"
               /\ pc' = "finally"
               /\ UNCHANGED log
    /\ UNCHANGED <<mergeVars, extractVars>>
    /\ UNCHANGED <<endpoint, files, idx, tmp, fs, results, pdf_jsons, response>>

two_extract ==
    /\ endpoint = TwoPdfs /\ pc = "extract"
    /\ LET data == extract_agreement_data(files[idx].pdf)
       IN IF data.t = "raise"
          THEN /\ exc' = data.exc
               /\ UNCHANGED results
          ELSE /\ results' = SetItem(results, files[idx].filename, data.v)
               /\ UNCHANGED exc
    /\ log' = Append(log, Event("extract", idx))
    /\ pc' = "finally"
    /\ UNCHANGED <<mergeVars, extractVars>>
    /\ UNCHANGED <<endpoint, files, idx, tmp, fs, pdf_jsons, response>>

two_finally_on_success_only ==
    /\ endpoint = TwoPdfs /\ pc = "finally"
    /\ IF exc # ""
       THEN /\ response' = ServerError
            /\ pc' = "done"
            /\ UNCHANGED <<idx, fs>>
       ELSE /\ fs' = fs \ {tmp}
            /\ idx' = idx + 1
            /\ pc' = IF idx + 1 > Len(files) THEN "respond" ELSE "check"
            /\ UNCHANGED response
    /\ UNCHANGED <<mergeVars, extractVars>>
    /\ UNCHANGED <<endpoint, files, tmp, results, pdf_jsons, exc, log>>

two_finally ==
    /\ endpoint = TwoPdfs /\ pc = "finally"
    /\ fs' = fs \ {tmp}
    /\ IF exc # ""
       THEN /\ response' = ServerError
            /\ pc' = "done"
            /\ UNCHANGED idx
       ELSE /\ idx' = idx + 1
            /\ pc' = IF idx + 1 > Len(files) THEN "respond" ELSE "check"
            /\ UNCHANGED response
    /\ UNCHANGED <<mergeVars, extractVars>>
    /\ UNCHANGED <<endpoint, files, tmp, results, pdf_jsons, exc, log>>

two_respond ==
    /\ endpoint = TwoPdfs /\ pc = "respond"
    /\ response' = JSONResponse("pdfs_json", results)
    /\ pc' = "done"
    /\ UNCHANGED <<mergeVars, extractVars>>
    /\ UNCHANGED <<endpoint, files, idx, tmp, fs, results, pdf_jsons, exc, log>>

(* upload_and_match *)

match_check_count ==
    /\ endpoint = Match2 /\ pc = "start"
    /\ IF Len(files) # 2
       THEN /\ response' = HTTPException400
            /\ pc' = "done"
            /\ UNCHANGED idx
       ELSE /\ idx' = 1
            /\ pc' = "create"
            /\ UNCHANGED response
    /\ UNCHANGED <<mergeVars, extractVars>>
    /\ UNCHANGED <<endpoint, files, tmp, fs, results, pdf_jsons, exc, log>>

match_create_tmp ==
    /\ endpoint = Match2 /\ pc = "create"
    /\ tmp' = idx
    /\ fs' = fs \cup {idx}
    /\ pc' = "try"
    /\ UNCHANGED <<mergeVars, extractVars>>
    /\ UNCHANGED <<endpoint, files, idx, results, pdf_jsons, exc, response, log>>

match_read_write ==
    /\ endpoint = Match2 /\ pc = "try"
    /\ \E io \in {"ok", "read fails", "write fails"} :
          IF io = "ok"
          THEN /\ log' = Append(log, Event("materialize", idx))
               /\ pc' = "extract"
               /\ UNCHANGED exc
          ELSE /\ exc' = "OSError"
               /\ pc' = "finally"
               /\ UNCHANGED log
    /\ UNCHANGED <<mergeVars, extractVars>>
    /\ UNCHANGED <<endpoint, files, idx, tmp, fs, results, pdf_jsons, response>>

match_extract ==
    /\ endpoint = Match2 /\ pc = "extract"
    /\ LET data == extract_agreement_data(files[idx].pdf)
       IN IF data.t = "raise"
          THEN /\ exc' = data.exc
               /\ UNCHANGED pdf_jsons
          ELSE /\ pdf_jsons' = Append(pdf_jsons, data.v)
               /\ UNCHANGED exc
    /\ log' = Append(log, Event("extract", idx))
    /\ pc' = "finally"
    /\ UNCHANGED <<mergeVars, extractVars>>
    /\ UNCHANGED <<endpoint, files, idx, tmp, fs, results, response>>

match_finally ==
    /\ endpoint = Match2 /\ pc = "finally"
    /\ fs' = fs \ {tmp}
    /\ IF exc # ""
       THEN /\ response' = ServerError
            /\ pc' = "done"
            /\ UNCHANGED idx
       ELSE /\ idx' = idx + 1
            /\ pc' = IF idx + 1 > Len(files) THEN "respond" ELSE "create"
            /\ UNCHANGED response
    /\ UNCHANGED <<mergeVars, extractVars>>
    /\ UNCHANGED <<endpoint, files, tmp, results, pdf_jsons, exc, log>>

match_respond ==
    /\ endpoint = Match2 /\ pc = "respond"
    /\ log' = Append(log, Event("merge", 0))
    /\ response' = JSONResponse("matched_json", merge_jsons(pdf_jsons[1], pdf_jsons[2]))
    /\ pc' = "done"
    /\ UNCHANGED <<mergeVars, extractVars>>
    /\ UNCHANGED <<endpoint, files, idx, tmp, fs, results, pdf_jsons, exc>>

Next ==
    \/ two_check_count
    \/ two_check_filename
    \/ two_create_tmp
    \/ two_read_write
    \/ two_extract
    \/ two_finally
    \/ two_respond
    \/ match_check_count
    \/ match_create_tmp
    \/ match_read_write
    \/ match_extract
    \/ match_finally
    \/ match_respond

Spec == Init /\ [][Next]_vars

-----------------------------------------------------------------------------
(* Properties of merge_jsons, checked under SpecMerge *)

\* a value that is empty or null: None, "", [] or {}
IsEmptyValue(x) ==
    \/ x = None
    \/ x.t \in {"str", "list"} /\ x.v = <<>>
    \/ x.t = "dict" /\ DOMAIN x.v = {}

\* k is a leaf key of left: its value is not a mapping in both inputs
IsLeafKey(left, right, k) ==
    ~(left[k].t = "dict" /\ k \in DOMAIN right /\ right[k].t = "dict")

\* the leaf rule at every level: a leaf key holds left's value when that is
\* non-empty and non-null, else right's value (None when right has no such key)
RECURSIVE LeftBiased(_, _, _)
LeftBiased(res, left, right) ==
    \A k \in DOMAIN left :
        /\ k \in DOMAIN res
        /\ IF IsLeafKey(left, right, k)
           THEN /\ ~IsEmptyValue(left[k]) => res[k] = left[k]
                /\ IsEmptyValue(left[k]) /\ k \in DOMAIN right => res[k] = right[k]
                /\ IsEmptyValue(left[k]) /\ k \notin DOMAIN right => res[k] = None
           ELSE res[k].t = "dict" /\ LeftBiased(res[k].v, left[k].v, right[k].v)

\* C1: for every leaf key k of left (not a mapping in both inputs), the merged
\* value is left's value when that is non-empty and non-null, and right's value
\* for k (None when right has no k) otherwise; merge({a:"X"},{a:"Y"}) is
\* {a:"X"} and merge({a:""},{a:"Y"}) is {a:"Y"}.
C1_LeftBiasedLeaf ==
    mpc = "done" =>
        /\ LeftBiased(merged, json1, json2)
        /\ (json1 = [a |-> Str(<<"X">>)] /\ json2 = [a |-> Str(<<"Y">>)])
              => merged = [a |-> Str(<<"X">>)]
        /\ (json1 = [a |-> Str(<<>>)] /\ json2 = [a |-> Str(<<"Y">>)])
              => merged = [a |-> Str(<<"Y">>)]
        /\ (json1 = [a |-> Str(<<"Y">>)] /\ json2 = [a |-> Str(<<"X">>)])
              => merged = [a |-> Str(<<"Y">>)]

\* an empty left leaf has been replaced by right's value
C1_Witness ==
    /\ mpc = "done"
    /\ json1 = [a |-> Str(<<>>)]
    /\ json2 = [a |-> Str(<<"Y">>)]
    /\ merged = [a |-> Str(<<"Y">>)]

\* C2: merging a mapping with itself gives the mapping back.
C2_MergeIdempotent ==
    (mpc = "done" /\ json1 = json2) => merged = json1

\* a mapping with an empty string, an empty list below an inner key, merged
\* with itself
C2_Witness ==
    /\ mpc = "done"
    /\ json1 = json2
    /\ json1 = [a |-> Str(<<>>), b |-> Dict([c |-> List(<<>>)])]
    /\ merged = json1

\* C3: a key of left that right does not have keeps exactly left's value.
C3_LeftOnlyKeyUnchanged ==
    mpc = "done" =>
        \A k \in DOMAIN json1 \ DOMAIN json2 :
            k \in DOMAIN merged /\ merged[k] = json1[k]

\* the shape of res is the shape of left: the same keys, mappings where left
\* has mappings (of left's shape again), leaves where left has leaves
RECURSIVE HasShapeOf(_, _)
HasShapeOf(res, left) ==
    /\ DOMAIN res = DOMAIN left
    /\ \A k \in DOMAIN left :
          IF left[k].t = "dict"
          THEN res[k].t = "dict" /\ HasShapeOf(res[k].v, left[k].v)
          ELSE res[k].t # "dict"

\* None merged with None (or with a missing key) is None, at every level
RECURSIVE AbsentStaysAbsent(_, _, _)
AbsentStaysAbsent(res, left, right) ==
    \A k \in DOMAIN left :
        /\ (left[k] = None /\ Get(right, k) = None) => res[k] = None
        /\ (left[k].t = "dict" /\ Get(right, k).t = "dict" /\ res[k].t = "dict")
              => AbsentStaysAbsent(res[k].v, left[k].v, right[k].v)

\* C9 as stated: the result has the shape of left, whatever right is.
C9_ShapeOfLeft ==
    mpc = "done" =>
        /\ HasShapeOf(merged, json1)
        /\ AbsentStaysAbsent(merged, json1, json2)

\* the shape of res where the two inputs agree on what is a mapping
RECURSIVE HasMergedShape(_, _, _)
HasMergedShape(res, left, right) ==
    /\ DOMAIN res = DOMAIN left
    /\ \A k \in DOMAIN left :
          LET r == Get(right, k)
          IN /\ (left[k].t = "dict" /\ r.t = "dict")
                   => res[k].t = "dict" /\ HasMergedShape(res[k].v, left[k].v, r.v)
             /\ (left[k].t = "dict" /\ r.t # "dict" /\ ~IsEmptyValue(left[k]))
                   => res[k] = left[k]
             /\ (left[k].t # "dict" /\ r.t # "dict") => res[k].t # "dict"

\* C9 as amended: the result has left's keys; a key that is a mapping in both
\* inputs is a mapping in the result, of the shape the same rule gives; a
\* non-empty mapping of left whose key is not a mapping in right is kept as
\* it is; a leaf of left whose key is a leaf of right, or missing in right, is
\* a leaf in the result; None merged with None is None.
C9_ShapeWhereInputsAgree ==
    mpc = "done" =>
        /\ HasMergedShape(merged, json1, json2)
        /\ AbsentStaysAbsent(merged, json1, json2)

\* a mapping in both inputs merged below its key, beside None merged with a
\* missing key
C9_Witness ==
    /\ mpc = "done"
    /\ json1 = [a |-> Dict([c |-> Str(<<>>)]), b |-> None]
    /\ json2 = [a |-> Dict([c |-> Str(<<"Y">>)])]
    /\ merged = [a |-> Dict([c |-> Str(<<"Y">>)]), b |-> None]

-----------------------------------------------------------------------------
(* Properties of extract_agreement_data, checked under SpecExtract *)

\* a page that yields no extractable text
PageWithoutText(p) == p = None \/ p = Str(<<>>)

\* a document that opens and whose pages all yield no text
DocumentWithoutText(file) ==
    /\ file.openable
    /\ \A i \in 1..Len(file.pages) : PageWithoutText(file.pages[i])

\* C4: a document whose pages all yield no text, whatever their number, makes
\* extract_agreement_data fail with the empty-text error (ValueError).
C4_NoTextFails ==
    (xpc = "done" /\ DocumentWithoutText(pdf)) => outcome = Raise("ValueError")

\* the four product fields of an extraction result
ProductFields(result) ==
    LET product == result.product.v
    IN <<product.name, product.quantity, product.price_per_unit, product.amount_total>>

\* the text the patterns are run on
NormalizedText(file) ==
    SubBlanks(SubCR(JoinNL([i \in 1..Len(file.pages) |->
        IF file.pages[i] = None THEN <<>> ELSE file.pages[i].v])))

\* w stands in txt from position s on
StandsAt(w, s, txt) ==
    s >= 1 /\ s + Len(w) - 1 <= Len(txt) /\ SubSeq(txt, s, s + Len(w) - 1) = w

\* the first position from s on that holds no whitespace
RECURSIVE SkipSpace(_, _)
SkipSpace(s, txt) ==
    IF s <= Len(txt) /\ txt[s] \in Space THEN SkipSpace(s + 1, txt) ELSE s

\* the last position up to s that holds no whitespace
RECURSIVE SkipSpaceBack(_, _)
SkipSpaceBack(s, txt) ==
    IF s >= 1 /\ txt[s] \in Space THEN SkipSpaceBack(s - 1, txt) ELSE s

\* the four values stand in txt one after the other, the quantity at s, with
\* whitespace and nothing else between them
OneProductLineAt(s, f, txt) ==
    LET name == f[1].v
        quantity == f[2].v
        price == f[3].v
        amount == f[4].v
        endName == SkipSpaceBack(s - 1, txt)
        sPrice == SkipSpace(s + Len(quantity), txt)
        sAmount == SkipSpace(sPrice + Len(price), txt)
    IN /\ endName < s - 1
       /\ StandsAt(name, endName - Len(name) + 1, txt)
       /\ StandsAt(quantity, s, txt)
       /\ sPrice > s + Len(quantity)
       /\ StandsAt(price, sPrice, txt)
       /\ sAmount > sPrice + Len(price)
       /\ StandsAt(amount, sAmount, txt)

\* C6: the four product fields are all None, or all set, and then they are
\* the pieces of one product line of the text: name, quantity, price and
\* amount one after the other with only whitespace between them.
C6_ProductGroupAtomic ==
    (xpc = "done" /\ outcome.t = "return") =>
        LET f == ProductFields(outcome.v)
            txt == NormalizedText(pdf)
        IN \/ \A i \in 1..4 : f[i] = None
           \/ /\ \A i \in 1..4 : f[i].t = "str"
              /\ \E s \in 1..Len(txt) : OneProductLineAt(s, f, txt)

\* a product line that runs over a page break has set all four fields
C6_Witness ==
    /\ xpc = "done"
    /\ outcome.t = "return"
    /\ Len(pdf.pages) = 2
    /\ pdf.pages[1] = Str(<<"C","o","t","t","o","n"," ","1","2"," ","b","a","l","e","s">>)
    /\ ProductFields(outcome.v) =
          << Str(<<"C","o","t","t","o","n">>),
             Str(<<"1","2"," ","b","a","l","e","s">>),
             Str(<<"5"," ","U","S","D">>),
             Str(<<"6","0"," ","U","S","D">>) >>

\* C7: no field of an extraction result is the empty string: a field without
\* a match, or whose capture is only whitespace, is None.
C7_NoEmptyStringField ==
    (xpc = "done" /\ outcome.t = "return") =>
        \A k \in DOMAIN outcome.v :
            LET x == outcome.v[k]
            IN IF x.t = "dict"
               THEN \A f \in DOMAIN x.v : x.v[f] # Str(<<>>)
               ELSE x # Str(<<>>)

-----------------------------------------------------------------------------
(* Properties of the upload endpoints, checked under Spec *)

\* C5: when a request has ended, on whatever path, none of the temporary
\* files it created exists any more.
C5_TempFilesDeleted ==
    pc = "done" => fs = {}

\* the second upload was written to its temporary file, had no text, and the
\* request has ended
C5_Witness ==
    /\ pc = "done"
    /\ exc = "ValueError"
    /\ tmp = 2
    /\ Event("materialize", 2) \in {log[n] : n \in 1..Len(log)}
    /\ fs = {}

\* C8: a request that does not carry exactly two uploads, or carries an
\* upload whose filename does not end in .pdf, is answered with status 400
\* and no result, on both endpoints. (Stated for the requests in which no
\* read, write or extraction raises, so that nothing else decides the answer.)
C8_BadRequestsGet400 ==
    (/\ pc = "done"
     /\ exc = ""
     /\ \/ Len(files) # 2
        \/ \E i \in 1..Len(files) : ~is_pdf_name(files[i].filename))
        => response.status = 400

\* an unreadable PDF, or one that opens and has no text
FailingDocument(file) == ~file.openable \/ DocumentWithoutText(file)

Logged(ev, i) == Event(ev, i) \in {log[n] : n \in 1..Len(log)}

\* C10: the uploads are processed in upload order, and once the extraction of
\* an unreadable or empty-text document has been tried, no later document is
\* materialized or extracted, merge_jsons is not called and no result is
\* returned.
C10_FailureAbortsRequest ==
    /\ \A m, n \in 1..Len(log) :
          (m < n /\ log[m].ev # "merge" /\ log[n].ev # "merge") => log[m].i <= log[n].i
    /\ \A i \in 1..Len(files) :
          (Logged("extract", i) /\ FailingDocument(files[i].pdf)) =>
              /\ \A n \in 1..Len(log) : log[n].i <= i
              /\ ~Logged("merge", 0)
              /\ response.status # 200

====
